---- MODULE Spec2Model ----
(***************************************************************************)
(* Model of pythonProject/simulate.py: the participant simulator.          *)
(*                                                                         *)
(* simulate_participants is modelled as a sequential process whose         *)
(* position is pc.  The operating system (environment variables, files),   *)
(* the random number generator and the remote completion service are the   *)
(* environment: what they hand to the program is chosen with \E at the     *)
(* step that reads it.                                                     *)
(*                                                                         *)
(* Python values: None is the string "None"; a dict whose order matters    *)
(* (trait definitions, characteristics) is a sequence of <<key, value>>    *)
(* pairs with distinct keys; a dict whose order does not matter            *)
(* (demographic options, a result row) is a function on its keys.  A       *)
(* function that may raise returns [ok |-> FALSE, exc |-> <type>].         *)
(***************************************************************************)
EXTENDS Integers, Sequences, FiniteSets, TLC

\* ------------------------------------------------------------------------
\* Bounds
\* ------------------------------------------------------------------------

\* largest participant count a run is started with
MaxCount == 3

\* largest participant count of the runs checked for termination
MaxFairCount == 2

\* iterations of the loop of test.py that are followed; the script asks
\* for 200
MaxLegacyCount == 2

\* largest number of Start clicks on the window of gui.py
MaxStarts == 2

\* largest raw output of the random number generator in a direct call of
\* generate_participant_details
MaxRaw == 48

\* raw outputs of the random number generator that a run samples
RandomSamples == {0, 6}

\* ------------------------------------------------------------------------
\* Python helpers
\* ------------------------------------------------------------------------

None == "None"

EmptyDict == [k \in {} |-> None]

\* dict.get(key, default)
Get(d, k, default) == IF k \in DOMAIN d THEN d[k] ELSE default

\* {**a, **b} and a.update(b): the keys of b win
Merge(a, b) == b @@ a

\* keys of an ordered dict, in insertion order
Keys(pairs) == [n \in 1..Len(pairs) |-> pairs[n][1]]

\* ordered dict .get(key, default)
PairGet(pairs, k, default) ==
    IF \E n \in 1..Len(pairs) : pairs[n][1] = k
    THEN pairs[CHOOSE n \in 1..Len(pairs) : pairs[n][1] = k][2]
    ELSE default

\* F(v), with the expression v evaluated once
Apply(F(_), v) == CHOOSE r \in {F(x) : x \in {v}} : TRUE

\* the dict built from <<key, value>> pairs inserted in order: a later pair
\* with the same key replaces the earlier one
DictOfPairs(pairs) ==
    [k \in {pairs[n][1] : n \in 1..Len(pairs)} |->
        pairs[CHOOSE n \in 1..Len(pairs) :
                /\ pairs[n][1] = k
                /\ \A m \in (n + 1)..Len(pairs) : pairs[m][1] # k][2]]

DictOf(pairs) == Apply(DictOfPairs, pairs)

Raise(e) == [ok |-> FALSE, exc |-> e]

\* random._randbelow(n) for the raw generator output u
randbelow(u, n) == u % n

\* variant: a range one wider than [a, b]
randint_Wide(a, b, u) == a + randbelow(u, b - a + 2)

\* random.randint(a, b) = a + _randbelow(b - a + 1)
randint(a, b, u) == a + randbelow(u, b - a + 1)

\* random.choice(seq) = seq[_randbelow(len(seq))] (1-based here)
choice(seq, u) == seq[1 + randbelow(u, Len(seq))]

\* str.title() on the trait names that occur
Title(s) ==
    CASE s = "extraversion"      -> "Extraversion"
      [] s = "agreeableness"     -> "Agreeableness"
      [] s = "conscientiousness" -> "Conscientiousness"
      [] s = "neuroticism"       -> "Neuroticism"
      [] s = "openness"          -> "Openness"
      [] s = "grit"              -> "Grit"
      [] s = "age"               -> "Age"
      [] s = "condition"         -> "Condition"
      [] OTHER                   -> s

\* str.strip() on the completion texts that occur
Strip(s) ==
    CASE s = " 3 " -> "3"
      [] OTHER     -> s

\* ------------------------------------------------------------------------
\* Environment: files, credentials, completion service
\* ------------------------------------------------------------------------

\* what path.exists() and json.load find at the profile config path
ConfigCustom ==
    [demographics |-> [age_range |-> <<20, 21>>, sex |-> <<"female">>],
     characteristics |-> << <<"grit", "1=gives up, 7=persists">> >>]

ConfigBadAge ==
    [demographics |-> [age_range |-> <<30, 20>>]]

ProfileFiles ==
    { [exists |-> FALSE, json |-> FALSE, data |-> EmptyDict],
      [exists |-> TRUE,  json |-> FALSE, data |-> EmptyDict],
      [exists |-> TRUE,  json |-> TRUE,  data |-> ConfigCustom],
      [exists |-> TRUE,  json |-> TRUE,  data |-> ConfigBadAge] }

\* the two condition files beside the program
PathA == [name |-> "conditionA", suffix |-> ".txt"]
PathB == [name |-> "conditionB", suffix |-> ".txt"]
TextA == "Rate 1-7."
TextB == "Rate 1-7 differently."
FilesAt(text) == { [readable |-> FALSE, data |-> ""],
                   [readable |-> TRUE,  data |-> text] }

\* LITELLM_API_KEY in os.environ before the call, and in the .env file
EnvKeys == {None, "", "sk-key"}
DotenvKeys == {None, "sk-key"}

\* the caller's output argument
Outputs == {None, "out.xlsx"}
TimestampPath == "DV_<timestamp>.xlsx"

\* what completion() hands back: the content of choices[0].message
Contents == {"5", " 3 ", None}
CompletionErrors == {"APIError"}

\* ------------------------------------------------------------------------
\* State
\* ------------------------------------------------------------------------

VARIABLES
    pc,             \* position in simulate_participants
    count,          \* argument: number of participants
    output,         \* argument: output path or None
    api_key,        \* local api_key
    demo_options,   \* local demo_options
    trait_defs,     \* local trait_defs
    condition_a,    \* local condition_a
    condition_b,    \* local condition_b
    results,        \* local results: the list of rows
    i,              \* loop variable; count once range(count) is exhausted
    condition_key,  \* local of the running iteration
    messages,       \* local of the running iteration
    metadata,       \* local of the running iteration
    exc,            \* the exception that left simulate_participants, or None
    stdout,         \* lines printed by the except handler
    calls,          \* requests received by the completion service
    sleeps,         \* iterations after which time.sleep ran
    files,          \* spreadsheets written by to_excel, oldest first
    opened,         \* paths the run has looked up or read, oldest first
    rowIter,        \* history: the iteration that appended each row
    replies,        \* what the completion service answered, oldest first
    trials,         \* direct calls of the helper functions, oldest first
    participants_var, \* text of the Participants field
    vendor_var,     \* selection of the Vendor box
    model_var,      \* selection of the Model box
    model_values,   \* model_box["values"]
    status_var,     \* text of the status label
    after_queue,    \* callbacks scheduled with after(), oldest first
    threads,        \* worker threads started, oldest first
    dialogs,        \* message boxes shown, oldest first
    dlg             \* the New Run dialog of app.py

vars == <<pc, count, output, api_key, demo_options, trait_defs, condition_a,
          condition_b, results, i, condition_key, messages, metadata, exc,
          stdout, calls, sleeps, files, opened, rowIter, replies, trials,
          participants_var, vendor_var, model_var, model_values, status_var,
          after_queue, threads, dialogs, dlg>>

\* the windows of gui.py and app.py
guiVars == <<participants_var, vendor_var, model_var, model_values,
             status_var, after_queue, threads, dialogs, dlg>>

\* everything simulate_participants and the helper calls work on
runVars == <<count, output, api_key, demo_options, trait_defs, condition_a,
             condition_b, results, i, condition_key, messages, metadata, exc,
             stdout, calls, sleeps, files, opened, rowIter, replies, trials>>

\* no window has been constructed
NoGui ==
    /\ participants_var = None
    /\ vendor_var = None
    /\ model_var = None
    /\ model_values = <<>>
    /\ status_var = None
    /\ after_queue = <<>>
    /\ threads = <<>>
    /\ dialogs = <<>>
    /\ dlg = None

iterLocals == <<condition_key, messages, metadata>>
setupLocals == <<api_key, demo_options, trait_defs, condition_a, condition_b>>
args == <<count, output>>
world == <<stdout, calls, sleeps, files, opened>>

\* ------------------------------------------------------------------------
\* Functions of simulate.py
\* ------------------------------------------------------------------------

\* load_dotenv(".env") then os.getenv("LITELLM_API_KEY"): the file never
\* replaces a variable the process already has
getenv_api_key(envKey, dotenvKey) ==
    IF envKey # None THEN envKey ELSE dotenvKey

\* variant: a missing file yields a bundled config
load_profile_config_Bundled(file) ==
    IF ~file.exists
    THEN [ok |-> TRUE,
          demographics |-> ConfigCustom.demographics,
          traits |-> ConfigCustom.characteristics]
    ELSE IF ~file.json THEN Raise("JSONDecodeError")
    ELSE [ok |-> TRUE,
          demographics |-> Get(file.data, "demographics", EmptyDict),
          traits |-> Get(file.data, "characteristics", <<>>)]

load_profile_config(file) ==
    IF ~file.exists THEN [ok |-> TRUE, demographics |-> EmptyDict, traits |-> <<>>]
    ELSE IF ~file.json THEN Raise("JSONDecodeError")
    ELSE [ok |-> TRUE,
          demographics |-> Get(file.data, "demographics", EmptyDict),
          traits |-> Get(file.data, "characteristics", <<>>)]

DefaultCultures ==
    <<"Caucasian", "African", "Asian", "Latino", "Middle Eastern",
      "Indigenous", "Mixed">>

DefaultTraits ==
    <<"extraversion", "agreeableness", "conscientiousness", "neuroticism",
      "openness">>

\* rnd holds the raw generator outputs consumed by the four draws
generate_participant_details(demographics_options, traits, rnd) ==
    LET age_range == Get(demographics_options, "age_range", <<18, 65>>)
        sexes == Get(demographics_options, "sex", <<"male", "female">>)
        cultures == Get(demographics_options, "culture_background", DefaultCultures)
        trait_names == IF traits # <<>> THEN Keys(traits) ELSE DefaultTraits
    IN  IF Len(age_range) # 2 THEN Raise("TypeError")
        ELSE IF age_range[1] > age_range[2] THEN Raise("ValueError")
        ELSE IF Len(sexes) = 0 \/ Len(cultures) = 0 THEN Raise("IndexError")
        ELSE [ok |-> TRUE,
              demographics |->
                  ("Age" :> randint(age_range[1], age_range[2], rnd.age))
                  @@ ("Sex" :> choice(sexes, rnd.sex))
                  @@ ("Culture Background" :> choice(cultures, rnd.culture)),
              characteristics |->
                  [n \in 1..Len(trait_names) |->
                      <<trait_names[n], randint(1, 7, rnd.traits[n])>>]]

ImageSuffixes == {".png", ".jpg", ".jpeg", ".gif"}

\* str.lower() on the suffixes that occur
Lower(s) ==
    CASE s = ".TXT" -> ".txt"
      [] s = ".PNG" -> ".png"
      [] s = ".JPG" -> ".jpg"
      [] s = ".Jpeg" -> ".jpeg"
      [] s = ".GIF" -> ".gif"
      [] s = ".PDF" -> ".pdf"
      [] OTHER      -> s

\* str.lstrip(".") on the suffixes that occur
LStripDot(s) ==
    CASE s = ".png" -> "png"
      [] s = ".gif" -> "gif"
      [] OTHER      -> s

\* base64.b64encode(data).decode("ascii"), kept as a tagged value
b64encode(data) == <<"base64", data>>

\* variant: the suffix is compared as written, without .lower()
load_condition_CaseSensitive(file_path, file) ==
    LET suffix == file_path.suffix
    IN  IF suffix = ".txt"
        THEN IF file.readable
             THEN [ok |-> TRUE,
                   parts |-> <<[type |-> "text", text |-> Strip(file.data)]>>]
             ELSE Raise("OSError")
        ELSE IF suffix \in ImageSuffixes
        THEN IF file.readable
             THEN [ok |-> TRUE,
                   parts |-> <<[type |-> "image_url",
                                mime |-> IF suffix \in {".jpg", ".jpeg"}
                                         THEN "jpeg"
                                         ELSE LStripDot(suffix),
                                b64 |-> b64encode(file.data)]>>]
             ELSE Raise("OSError")
        ELSE Raise("ValueError")

load_condition(file_path, file) ==
    LET suffix == Lower(file_path.suffix)
    IN  IF suffix = ".txt"
        THEN IF file.readable
             THEN [ok |-> TRUE,
                   parts |-> <<[type |-> "text", text |-> Strip(file.data)]>>]
             ELSE Raise("OSError")
        ELSE IF suffix \in ImageSuffixes
        THEN IF file.readable
             THEN [ok |-> TRUE,
                   parts |-> <<[type |-> "image_url",
                                mime |-> IF suffix \in {".jpg", ".jpeg"}
                                         THEN "jpeg"
                                         ELSE LStripDot(suffix),
                                b64 |-> b64encode(file.data)]>>]
             ELSE Raise("OSError")
        ELSE Raise("ValueError")

ThinkMessage ==
    [role |-> "user",
     content |-> "Think carefully about what kind of person you are."]

FinalMessage ==
    [role |-> "user",
     content |-> "Now, based on your thoughts, what is your final answer? Output your rating only please."]

DefaultMeaning == "1=very low, 7=very high"

\* variant: the two fixed instructions are sent in the other order
render_messages_FinalFirst(condition_content, traits, details) ==
    LET demographics == details.demographics
        characteristics == details.characteristics
        system_prompt ==
            [age |-> demographics["Age"],
             sex |-> demographics["Sex"],
             culture |-> demographics["Culture Background"],
             traits |-> [n \in 1..Len(characteristics) |->
                 <<characteristics[n][1], characteristics[n][2],
                   IF traits # <<>>
                   THEN PairGet(traits, characteristics[n][1], DefaultMeaning)
                   ELSE DefaultMeaning>>]]
    IN  [ok |-> TRUE,
         messages |-> <<[role |-> "system", content |-> system_prompt],
                        [role |-> "user", content |-> condition_content],
                        FinalMessage,
                        ThinkMessage>>,
         metadata |->
             Merge(demographics,
                   DictOf([n \in 1..Len(characteristics) |->
                       <<Title(characteristics[n][1]), characteristics[n][2]>>]))]

\* lines 121-148, for the details line 118 returned; the system prompt is
\* kept as the values its format string interpolates
render_messages(condition_content, traits, details) ==
    LET demographics == details.demographics
        characteristics == details.characteristics
        system_prompt ==
            [age |-> demographics["Age"],
             sex |-> demographics["Sex"],
             culture |-> demographics["Culture Background"],
             traits |-> [n \in 1..Len(characteristics) |->
                 <<characteristics[n][1], characteristics[n][2],
                   IF traits # <<>>
                   THEN PairGet(traits, characteristics[n][1], DefaultMeaning)
                   ELSE DefaultMeaning>>]]
    IN  [ok |-> TRUE,
         messages |-> <<[role |-> "system", content |-> system_prompt],
                        [role |-> "user", content |-> condition_content],
                        ThinkMessage,
                        FinalMessage>>,
         metadata |->
             Merge(demographics,
                   DictOf([n \in 1..Len(characteristics) |->
                       <<Title(characteristics[n][1]), characteristics[n][2]>>]))]

\* variant: the metadata comes from a second call of the generator
build_messages_DrawsTwice(condition_content, demographics_options, traits, rnd) ==
    Apply(LAMBDA details :
              IF details.ok
              THEN [render_messages(condition_content, traits, details)
                      EXCEPT !.metadata =
                          render_messages(condition_content, traits,
                              generate_participant_details(
                                  demographics_options, traits,
                                  [age |-> rnd.age + 1, sex |-> rnd.sex + 1,
                                   culture |-> rnd.culture + 1,
                                   traits |-> [n \in DOMAIN rnd.traits |->
                                                  rnd.traits[n] + 1]])).metadata]
              ELSE details,
          generate_participant_details(demographics_options, traits, rnd))

\* variant: the prompt is rendered with an age build_messages draws itself
build_messages_OwnDraw(condition_content, demographics_options, traits, rnd) ==
    Apply(LAMBDA details :
              IF details.ok
              THEN render_messages(condition_content, traits,
                       [details EXCEPT !.demographics =
                           ("Age" :> randint(18, 80, rnd.age)) @@ @])
              ELSE details,
          generate_participant_details(demographics_options, traits, rnd))

build_messages(condition_content, demographics_options, traits, rnd) ==
    Apply(LAMBDA details :
              IF details.ok
              THEN render_messages(condition_content, traits, details)
              ELSE details,
          generate_participant_details(demographics_options, traits, rnd))

\* variant: the content is recorded as returned, without .strip()
extract_dv_Raw(content) ==
    IF content = None THEN Raise("AttributeError")
    ELSE [ok |-> TRUE, dv |-> content]

\* response["choices"][0]["message"]["content"].strip()
extract_dv(content) ==
    IF content = None THEN Raise("AttributeError")
    ELSE [ok |-> TRUE, dv |-> Strip(content)]

\* metadata.update({"Condition": condition_key, "DV": dv})
record_row(row, key, dv) ==
    Merge(row, ("Condition" :> key) @@ ("DV" :> dv))

\* pd.DataFrame(results): the columns are the keys seen in the rows, and a
\* row is padded where it lacks a column
Columns(rows) == UNION { DOMAIN rows[n] : n \in 1..Len(rows) }

DataFrame(rows) ==
    [columns |-> Columns(rows),
     rows |-> [n \in 1..Len(rows) |->
         [c \in Columns(rows) |-> Get(rows[n], c, "NaN")]]]

\* ------------------------------------------------------------------------
\* simulate_participants, step by step
\* ------------------------------------------------------------------------

\* the raw generator outputs one iteration consumes, for a sampled output u
Draw(u) ==
    [age |-> u, sex |-> u, culture |-> u,
     traits |-> [n \in 1..Len(DefaultTraits) |-> u + n - 1]]

\* the answer of the completion service to the request of iteration k
Reply(k, kind, value) == [iteration |-> k, kind |-> kind, value |-> value]

\* print(f"Error on iteration {i}: {exc}")
ErrorLine(k, e) == [iteration |-> k, exc |-> e]

Init ==
    /\ pc = "Start"
    /\ count \in 0..MaxCount
    /\ output \in Outputs
    /\ api_key = None
    /\ demo_options = EmptyDict
    /\ trait_defs = <<>>
    /\ condition_a = <<>>
    /\ condition_b = <<>>
    /\ results = <<>>
    /\ i = 0
    /\ condition_key = None
    /\ messages = <<>>
    /\ metadata = EmptyDict
    /\ exc = None
    /\ stdout = <<>>
    /\ calls = <<>>
    /\ sleeps = <<>>
    /\ files = <<>>
    /\ opened = <<>>
    /\ rowIter = <<>>
    /\ replies = <<>>
    /\ trials = <<>>
    /\ NoGui

\* variant: "if api_key is None" in place of "if not api_key"
CheckCredential_NoneOnly ==
    /\ pc = "Start"
    /\ \E envKey \in EnvKeys, dotenvKey \in DotenvKeys :
         LET key == getenv_api_key(envKey, dotenvKey)
         IN  /\ api_key' = key
             /\ IF key = None
                THEN pc' = "Raised" /\ exc' = "RuntimeError"
                ELSE pc' = "LoadConfig" /\ exc' = exc
    /\ opened' = Append(opened, ".env")
    /\ UNCHANGED <<args, demo_options, trait_defs, condition_a, condition_b,
                   results, i, iterLocals, stdout, calls, sleeps, files,
                   rowIter>>
    /\ UNCHANGED <<replies, trials>>
    /\ UNCHANGED guiVars

\* lines 182-187: read the credential, raise RuntimeError without one
CheckCredential ==
    /\ pc = "Start"
    /\ \E envKey \in EnvKeys, dotenvKey \in DotenvKeys :
         LET key == getenv_api_key(envKey, dotenvKey)
         IN  /\ api_key' = key
             /\ IF key = None \/ key = ""
                THEN pc' = "Raised" /\ exc' = "RuntimeError"
                ELSE pc' = "LoadConfig" /\ exc' = exc
    /\ opened' = Append(opened, ".env")
    /\ UNCHANGED <<args, demo_options, trait_defs, condition_a, condition_b,
                   results, i, iterLocals, stdout, calls, sleeps, files,
                   rowIter>>
    /\ UNCHANGED <<replies, trials>>
    /\ UNCHANGED guiVars

\* line 188
LoadProfileConfig ==
    /\ pc = "LoadConfig"
    /\ \E file \in ProfileFiles :
         LET r == load_profile_config(file)
         IN  IF r.ok
             THEN /\ demo_options' = r.demographics
                  /\ trait_defs' = r.traits
                  /\ pc' = "LoadConditions"
                  /\ exc' = exc
             ELSE /\ pc' = "Raised"
                  /\ exc' = r.exc
                  /\ UNCHANGED <<demo_options, trait_defs>>
    /\ opened' = Append(opened, "profile_config.json")
    /\ UNCHANGED <<args, api_key, condition_a, condition_b, results, i,
                   iterLocals, stdout, calls, sleeps, files, rowIter>>
    /\ UNCHANGED <<replies, trials>>
    /\ UNCHANGED guiVars

\* variant: a condition that cannot be loaded is left empty and the run
\* goes on
LoadConditions_Lenient ==
    /\ pc = "LoadConditions"
    /\ \E fa \in FilesAt(TextA), fb \in FilesAt(TextB) :
         LET a == load_condition(PathA, fa)
             b == load_condition(PathB, fb)
         IN  /\ condition_a' = IF a.ok THEN a.parts ELSE <<>>
             /\ condition_b' = IF b.ok THEN b.parts ELSE <<>>
    /\ opened' = opened \o <<"conditionA.txt", "conditionB.txt">>
    /\ pc' = IF count > 0 THEN "Pending" ELSE "Finished"
    /\ UNCHANGED <<args, api_key, demo_options, trait_defs, results, i,
                   iterLocals, exc, stdout, calls, sleeps, files, rowIter>>
    /\ UNCHANGED <<replies, trials>>
    /\ UNCHANGED guiVars

\* lines 190-194: load both conditions, create results, enter the loop
LoadConditions ==
    /\ pc = "LoadConditions"
    /\ \E fa \in FilesAt(TextA), fb \in FilesAt(TextB) :
         LET a == load_condition(PathA, fa)
             b == load_condition(PathB, fb)
         IN  IF ~a.ok
             THEN /\ pc' = "Raised" /\ exc' = a.exc
                  /\ opened' = Append(opened, "conditionA.txt")
                  /\ UNCHANGED <<condition_a, condition_b>>
             ELSE IF ~b.ok
             THEN /\ pc' = "Raised" /\ exc' = b.exc
                  /\ opened' = opened \o <<"conditionA.txt", "conditionB.txt">>
                  /\ condition_a' = a.parts
                  /\ UNCHANGED condition_b
             ELSE /\ condition_a' = a.parts
                  /\ condition_b' = b.parts
                  /\ opened' = opened \o <<"conditionA.txt", "conditionB.txt">>
                  /\ pc' = IF count > 0 THEN "Pending" ELSE "Finished"
                  /\ exc' = exc
    /\ UNCHANGED <<args, api_key, demo_options, trait_defs, results, i,
                   iterLocals, stdout, calls, sleeps, files, rowIter>>
    /\ UNCHANGED <<replies, trials>>
    /\ UNCHANGED guiVars

\* variant: the conditions alternate, condition A first
EnterIteration_Alternates ==
    /\ pc = "Pending"
    /\ condition_key' = IF condition_key = "condition A"
                        THEN "condition B" ELSE "condition A"
    /\ pc' = "Building"
    /\ UNCHANGED <<args, setupLocals, results, i, messages, metadata, exc,
                   world, rowIter>>
    /\ UNCHANGED <<replies, trials>>
    /\ UNCHANGED guiVars

\* lines 195-199: enter the try body and choose the condition
EnterIteration ==
    /\ pc = "Pending"
    /\ \E key \in {"condition A", "condition B"} : condition_key' = key
    /\ pc' = "Building"
    /\ UNCHANGED <<args, setupLocals, results, i, messages, metadata, exc,
                   world, rowIter>>
    /\ UNCHANGED <<replies, trials>>
    /\ UNCHANGED guiVars

\* variant: each condition key is paired with the other file's content
BuildAndSend_Swapped ==
    /\ pc = "Building"
    /\ \E u \in RandomSamples :
       \E r \in {build_messages(IF condition_key = "condition A"
                                THEN condition_b ELSE condition_a,
                                demo_options, trait_defs, Draw(u))} :
         IF r.ok
         THEN /\ messages' = r.messages
              /\ metadata' = r.metadata
              /\ calls' = Append(calls, [iteration |-> i, messages |-> r.messages])
              /\ pc' = "Calling"
              /\ UNCHANGED stdout
         ELSE /\ stdout' = Append(stdout, ErrorLine(i, r.exc))
              /\ pc' = "Skipped"
              /\ UNCHANGED <<messages, metadata, calls>>
    /\ UNCHANGED <<args, setupLocals, results, i, condition_key, exc, sleeps,
                   files, opened, rowIter>>
    /\ UNCHANGED <<replies, trials>>
    /\ UNCHANGED guiVars

\* lines 200-210: build the prompt and send it; line 216 when that raises
BuildAndSend ==
    /\ pc = "Building"
    /\ \E u \in RandomSamples :
       \E r \in {build_messages(IF condition_key = "condition A"
                                THEN condition_a ELSE condition_b,
                                demo_options, trait_defs, Draw(u))} :
         IF r.ok
         THEN /\ messages' = r.messages
              /\ metadata' = r.metadata
              /\ calls' = Append(calls, [iteration |-> i, messages |-> r.messages])
              /\ pc' = "Calling"
              /\ UNCHANGED stdout
         ELSE /\ stdout' = Append(stdout, ErrorLine(i, r.exc))
              /\ pc' = "Skipped"
              /\ UNCHANGED <<messages, metadata, calls>>
    /\ UNCHANGED <<args, setupLocals, results, i, condition_key, exc, sleeps,
                   files, opened, rowIter>>
    /\ UNCHANGED <<replies, trials>>
    /\ UNCHANGED guiVars

\* variant: the spreadsheet is rewritten after every recorded row
CompletionReturns_WritesEachRow ==
    /\ pc = "Calling"
    /\ \E content \in Contents :
         LET r == extract_dv(content)
         IN  IF r.ok
             THEN /\ metadata' = record_row(metadata, condition_key, r.dv)
                  /\ results' = Append(results, metadata')
                  /\ rowIter' = Append(rowIter, i)
                  /\ files' = <<[path |-> TimestampPath, df |-> DataFrame(results')]>>
                  /\ pc' = "Recorded"
                  /\ replies' = Append(replies, Reply(i, "returned", content))
                  /\ UNCHANGED stdout
             ELSE /\ stdout' = Append(stdout, ErrorLine(i, r.exc))
                  /\ pc' = "Skipped"
                  /\ replies' = Append(replies, Reply(i, "returned", content))
                  /\ UNCHANGED <<metadata, results, rowIter, files>>
    /\ UNCHANGED <<args, setupLocals, i, condition_key, messages, exc, calls,
                   sleeps, opened>>
    /\ UNCHANGED trials
    /\ UNCHANGED guiVars

\* variant: results.insert(0, metadata) in place of results.append(metadata)
CompletionReturns_Prepends ==
    /\ pc = "Calling"
    /\ \E content \in Contents :
         LET r == extract_dv(content)
         IN  IF r.ok
             THEN /\ metadata' = record_row(metadata, condition_key, r.dv)
                  /\ results' = <<metadata'>> \o results
                  /\ rowIter' = <<i>> \o rowIter
                  /\ pc' = "Recorded"
                  /\ replies' = Append(replies, Reply(i, "returned", content))
                  /\ UNCHANGED stdout
             ELSE /\ stdout' = Append(stdout, ErrorLine(i, r.exc))
                  /\ pc' = "Skipped"
                  /\ replies' = Append(replies, Reply(i, "returned", content))
                  /\ UNCHANGED <<metadata, results, rowIter>>
    /\ UNCHANGED <<args, setupLocals, i, condition_key, messages, exc, calls,
                   sleeps, files, opened>>
    /\ UNCHANGED trials
    /\ UNCHANGED guiVars

\* lines 211-213: completion returned; extract the answer and record the row,
\* line 216 when the extraction raises
CompletionReturns ==
    /\ pc = "Calling"
    /\ \E content \in Contents :
         LET r == extract_dv(content)
         IN  IF r.ok
             THEN /\ metadata' = record_row(metadata, condition_key, r.dv)
                  /\ results' = Append(results, metadata')
                  /\ rowIter' = Append(rowIter, i)
                  /\ pc' = "Recorded"
                  /\ replies' = Append(replies, Reply(i, "returned", content))
                  /\ UNCHANGED stdout
             ELSE /\ stdout' = Append(stdout, ErrorLine(i, r.exc))
                  /\ pc' = "Skipped"
                  /\ replies' = Append(replies, Reply(i, "returned", content))
                  /\ UNCHANGED <<metadata, results, rowIter>>
    /\ UNCHANGED <<args, setupLocals, i, condition_key, messages, exc, calls,
                   sleeps, files, opened>>
    /\ UNCHANGED trials
    /\ UNCHANGED guiVars

\* variant: the row is appended although completion raised
CompletionRaises_RecordsRow ==
    /\ pc = "Calling"
    /\ \E e \in CompletionErrors :
         /\ stdout' = Append(stdout, ErrorLine(i, e))
         /\ replies' = Append(replies, Reply(i, "raised", e))
    /\ results' = Append(results, metadata)
    /\ rowIter' = Append(rowIter, i)
    /\ pc' = "Skipped"
    /\ UNCHANGED <<args, setupLocals, i, iterLocals, exc, calls, sleeps,
                   files, opened>>
    /\ UNCHANGED trials
    /\ UNCHANGED guiVars

\* variant: the handler swallows the exception without printing
CompletionRaises_Silent ==
    /\ pc = "Calling"
    /\ pc' = "Skipped"
    /\ UNCHANGED <<args, setupLocals, results, i, iterLocals, exc, world,
                   rowIter>>
    /\ \E e \in CompletionErrors :
         replies' = Append(replies, Reply(i, "raised", e))
    /\ UNCHANGED trials
    /\ UNCHANGED guiVars

\* variant: the exception is not caught and leaves simulate_participants
CompletionRaises_Propagates ==
    /\ pc = "Calling"
    /\ \E e \in CompletionErrors :
         /\ exc' = e
         /\ replies' = Append(replies, Reply(i, "raised", e))
    /\ pc' = "Raised"
    /\ UNCHANGED <<args, setupLocals, results, i, iterLocals, world, rowIter>>
    /\ UNCHANGED trials
    /\ UNCHANGED guiVars

\* variant: a failed request is sent once more before the iteration is given up
CompletionRaises_Retry ==
    /\ pc = "Calling"
    /\ IF Cardinality({n \in 1..Len(calls) : calls[n].iteration = i}) < 2
       THEN /\ calls' = Append(calls, [iteration |-> i, messages |-> messages])
            /\ pc' = "Calling"
            /\ UNCHANGED stdout
       ELSE /\ \E e \in CompletionErrors :
                 stdout' = Append(stdout, ErrorLine(i, e))
            /\ pc' = "Skipped"
            /\ UNCHANGED calls
    /\ UNCHANGED <<args, setupLocals, results, i, iterLocals, exc, sleeps,
                   files, opened, rowIter>>
    /\ \E e \in CompletionErrors :
         replies' = Append(replies, Reply(i, "raised", e))
    /\ UNCHANGED trials
    /\ UNCHANGED guiVars

\* lines 204-210 then 215-216: completion raised
CompletionRaises ==
    /\ pc = "Calling"
    /\ \E e \in CompletionErrors :
         /\ stdout' = Append(stdout, ErrorLine(i, e))
         /\ replies' = Append(replies, Reply(i, "raised", e))
    /\ pc' = "Skipped"
    /\ UNCHANGED <<args, setupLocals, results, i, iterLocals, exc, calls,
                   sleeps, files, opened, rowIter>>
    /\ UNCHANGED trials
    /\ UNCHANGED guiVars

\* variant: range(count + 1) in place of range(count)
NextIndex_OneMore ==
    /\ pc' = IF i + 1 < count + 1 THEN "Pending" ELSE "Finished"
    /\ i' = i + 1

\* line 194: the next index of range(count), or the end of the loop
NextIndex ==
    /\ pc' = IF i + 1 < count THEN "Pending" ELSE "Finished"
    /\ i' = i + 1

\* line 214 then line 194: sleep after a recorded row, then go on
SleepAndAdvance ==
    /\ pc = "Recorded"
    /\ sleeps' = Append(sleeps, i)
    /\ NextIndex
    /\ UNCHANGED <<args, setupLocals, results, iterLocals, exc, stdout, calls,
                   files, opened, rowIter>>
    /\ UNCHANGED <<replies, trials>>
    /\ UNCHANGED guiVars

\* variant: the delay also runs after a failed iteration
AdvanceAfterSkip_Backoff ==
    /\ pc = "Skipped"
    /\ sleeps' = Append(sleeps, i)
    /\ NextIndex
    /\ UNCHANGED <<args, setupLocals, results, iterLocals, exc, stdout, calls,
                   files, opened, rowIter>>
    /\ UNCHANGED <<replies, trials>>
    /\ UNCHANGED guiVars

\* line 216 then line 194: the handler is done, go on
AdvanceAfterSkip ==
    /\ pc = "Skipped"
    /\ NextIndex
    /\ UNCHANGED <<args, setupLocals, results, iterLocals, exc, world, rowIter>>
    /\ UNCHANGED <<replies, trials>>
    /\ UNCHANGED guiVars

\* lines 218-224: write the spreadsheet and return its path (to_excel is
\* taken to succeed)
Export ==
    /\ pc = "Finished"
    /\ output' = IF output = None THEN TimestampPath ELSE output
    /\ files' = Append(files, [path |-> output', df |-> DataFrame(results)])
    /\ pc' = "Returned"
    /\ UNCHANGED <<count, setupLocals, results, i, iterLocals, exc, stdout,
                   calls, sleeps, opened, rowIter>>
    /\ UNCHANGED <<replies, trials>>
    /\ UNCHANGED guiVars

Next ==
    \/ CheckCredential
    \/ LoadProfileConfig
    \/ LoadConditions
    \/ EnterIteration
    \/ BuildAndSend
    \/ CompletionReturns
    \/ CompletionRaises
    \/ SleepAndAdvance
    \/ AdvanceAfterSkip
    \/ Export

Spec == Init /\ [][Next]_vars

\* a run of the sequential program keeps going: a step that can be taken
\* is taken, and every completion call returns or raises
FairInit == Init /\ count <= MaxFairCount

FairSpec == FairInit /\ [][Next]_vars /\ WF_vars(Next)

\* ------------------------------------------------------------------------
\* The helper functions called directly, over a wider range of inputs
\* ------------------------------------------------------------------------

DemographicFields == {"age_range", "sex", "culture_background"}

\* values a profile config gives to the demographic fields
UnitAgeRanges == {<<20, 21>>, <<30, 30>>, <<30, 20>>, <<18>>}
UnitSexLists == {<<"female">>, <<>>}
UnitCultureLists == {<<"Asian", "Latino">>, <<>>}

\* the "demographics" object with the fields in present
UnitDemographicsOf(present, ar, sx, cu) ==
    [k \in present |-> CASE k = "age_range" -> ar
                         [] k = "sex"       -> sx
                         [] OTHER           -> cu]

UnitDemographics ==
    { UnitDemographicsOf(present, ar, sx, cu) :
        present \in SUBSET DemographicFields, ar \in UnitAgeRanges,
        sx \in UnitSexLists, cu \in UnitCultureLists }

\* the "characteristics" object: trait name to the meaning of its scale
UnitCharacteristics ==
    { <<>>,
      << <<"grit", "1=gives up, 7=persists">> >>,
      << <<"openness", "1=closed, 7=open">>, <<"grit", "1=gives up, 7=persists">> >>,
      << <<"age", "1=feels young, 7=feels old">>,
         <<"condition", "1=poor health, 7=good health">> >>,
      << <<"grit", "1=gives up, 7=persists">>, <<"Grit", "1=soft, 7=coarse">> >> }

\* what path.exists() and json.load find at the path passed in
UnitProfileFiles ==
    { [exists |-> FALSE, json |-> FALSE, data |-> EmptyDict],
      [exists |-> TRUE,  json |-> FALSE, data |-> EmptyDict],
      [exists |-> TRUE,  json |-> TRUE,  data |-> EmptyDict] }
    \cup { [exists |-> TRUE, json |-> TRUE, data |-> [demographics |-> d]] :
             d \in UnitDemographics }
    \cup { [exists |-> TRUE, json |-> TRUE, data |-> [characteristics |-> t]] :
             t \in UnitCharacteristics }
    \cup { [exists |-> TRUE, json |-> TRUE,
            data |-> [demographics |-> d, characteristics |-> t]] :
             d \in UnitDemographics, t \in UnitCharacteristics }

\* the raw generator outputs one call consumes: a for the demographic
\* draws, t onwards for the trait draws
UnitDraw(a, t) ==
    [age |-> a, sex |-> a, culture |-> a,
     traits |-> [n \in 1..Len(DefaultTraits) |-> t + n - 1]]

UnitDraws == { UnitDraw(a, t) : a \in 0..MaxRaw, t \in 0..7 }

\* a few draws, some of which generate the same participant
BuildDraws == { UnitDraw(a, t) : a \in {0, 1, 336}, t \in {0, 7} }

\* condition contents as load_condition returns them
UnitContents ==
    { <<[type |-> "text", text |-> TextA]>>,
      <<[type |-> "text", text |-> TextB]>> }

PureInit ==
    /\ pc = "Unit"
    /\ count = 0
    /\ output = None
    /\ api_key = None
    /\ demo_options = EmptyDict
    /\ trait_defs = <<>>
    /\ condition_a = <<>>
    /\ condition_b = <<>>
    /\ results = <<>>
    /\ i = 0
    /\ condition_key = None
    /\ messages = <<>>
    /\ metadata = EmptyDict
    /\ exc = None
    /\ stdout = <<>>
    /\ calls = <<>>
    /\ sleeps = <<>>
    /\ files = <<>>
    /\ opened = <<>>
    /\ rowIter = <<>>
    /\ replies = <<>>
    /\ trials = <<>>
    /\ NoGui

unitUnused == <<count, output, api_key, condition_a, condition_b, i, stdout,
                calls, sleeps, files, opened, rowIter, replies>>

\* demographics_options, traits = load_profile_config(path)
UnitLoadConfig ==
    /\ pc = "Unit"
    /\ \E file \in UnitProfileFiles :
       \E r \in {load_profile_config(file)} :
         /\ trials' = Append(trials, [fn |-> "load_profile_config",
                                      file |-> file, result |-> r])
         /\ IF r.ok
            THEN /\ demo_options' = r.demographics
                 /\ trait_defs' = r.traits
                 /\ pc' = "UnitLoaded"
                 /\ exc' = exc
            ELSE /\ pc' = "UnitRaised"
                 /\ exc' = r.exc
                 /\ UNCHANGED <<demo_options, trait_defs>>
    /\ UNCHANGED <<unitUnused, results, condition_key, messages, metadata>>
    /\ UNCHANGED guiVars

\* generate_participant_details(demographics_options, traits)
UnitGenerate ==
    /\ pc = "UnitLoaded"
    /\ \E rnd \in UnitDraws :
       \E r \in {generate_participant_details(demo_options, trait_defs, rnd)} :
         /\ trials' = Append(trials, [fn |-> "generate_participant_details",
                                      rnd |-> rnd, result |-> r])
         /\ IF r.ok
            THEN pc' = "UnitGenerated" /\ exc' = exc
            ELSE pc' = "UnitRaised" /\ exc' = r.exc
    /\ UNCHANGED <<unitUnused, demo_options, trait_defs, results,
                   condition_key, messages, metadata>>
    /\ UNCHANGED guiVars

\* messages, metadata = build_messages(content, demographics_options, traits);
\* details is what the call at line 118 returned inside it
UnitBuild ==
    /\ pc = "UnitLoaded"
    /\ \E content \in UnitContents, rnd \in BuildDraws :
       \E r \in {build_messages(content, demo_options, trait_defs, rnd)} :
         /\ trials' = Append(trials,
               [fn |-> "build_messages", content |-> content, rnd |-> rnd,
                details |-> generate_participant_details(demo_options,
                                                         trait_defs, rnd),
                result |-> r])
         /\ IF r.ok
            THEN /\ messages' = r.messages
                 /\ metadata' = r.metadata
                 /\ pc' = "UnitBuilt"
                 /\ exc' = exc
            ELSE /\ pc' = "UnitRaised"
                 /\ exc' = r.exc
                 /\ UNCHANGED <<messages, metadata>>
    /\ UNCHANGED <<unitUnused, demo_options, trait_defs, results,
                   condition_key>>
    /\ UNCHANGED guiVars

\* a second call of build_messages with the same profile config
UnitBuildAgain ==
    /\ pc = "UnitBuilt"
    /\ \E content \in UnitContents, rnd \in BuildDraws :
       \E r \in {build_messages(content, demo_options, trait_defs, rnd)} :
         /\ trials' = Append(trials,
               [fn |-> "build_messages", content |-> content, rnd |-> rnd,
                details |-> generate_participant_details(demo_options,
                                                         trait_defs, rnd),
                result |-> r])
         /\ IF r.ok
            THEN /\ messages' = r.messages
                 /\ metadata' = r.metadata
                 /\ pc' = "UnitBuiltAgain"
                 /\ exc' = exc
            ELSE /\ pc' = "UnitRaised"
                 /\ exc' = r.exc
                 /\ UNCHANGED <<messages, metadata>>
    /\ UNCHANGED <<unitUnused, demo_options, trait_defs, results,
                   condition_key>>
    /\ UNCHANGED guiVars

\* lines 211-213 on the metadata build_messages returned
UnitRecord ==
    /\ pc = "UnitBuilt"
    /\ \E key \in {"condition A", "condition B"}, content \in Contents :
       \E r \in {extract_dv(content)} :
         /\ condition_key' = key
         /\ IF r.ok
            THEN /\ metadata' = record_row(metadata, key, r.dv)
                 /\ results' = Append(results, metadata')
                 /\ pc' = "UnitRecorded"
                 /\ exc' = exc
            ELSE /\ pc' = "UnitRaised"
                 /\ exc' = r.exc
                 /\ UNCHANGED <<metadata, results>>
    /\ UNCHANGED <<unitUnused, demo_options, trait_defs, messages, trials>>
    /\ UNCHANGED guiVars

\* ------------------------------------------------------------------------
\* load_env of test.py.  A line, a key and a value are sequences of tokens;
\* " ", "#" and "=" are the characters the function looks at
\* ------------------------------------------------------------------------

\* line.strip()
StripLine(line) ==
    LET solid == {n \in 1..Len(line) : line[n] # " "}
    IN  IF solid = {} THEN <<>>
        ELSE SubSeq(line, CHOOSE n \in solid : \A m \in solid : n <= m,
                          CHOOSE n \in solid : \A m \in solid : n >= m)

\* line.split("=", 1), for a line that holds "="
SplitOnce(line) ==
    LET at == CHOOSE n \in 1..Len(line) :
                  line[n] = "=" /\ \A m \in 1..(n - 1) : line[m] # "="
    IN  [key |-> SubSeq(line, 1, at - 1), value |-> SubSeq(line, at + 1, Len(line))]

\* variant: os.environ[key] = value
setdefault_Assign(environ, key, value) ==
    IF key = <<>> THEN [ok |-> FALSE, exc |-> "OSError", environ |-> environ]
    ELSE [ok |-> TRUE, exc |-> None, environ |-> (key :> value) @@ environ]

\* os.environ.setdefault(key, value); putenv rejects the empty name
setdefault(environ, key, value) ==
    IF key \in DOMAIN environ
    THEN [ok |-> TRUE, exc |-> None, environ |-> environ]
    ELSE IF key = <<>>
    THEN [ok |-> FALSE, exc |-> "OSError", environ |-> environ]
    ELSE [ok |-> TRUE, exc |-> None, environ |-> (key :> value) @@ environ]

\* lines 31-35 of test.py from line n of the file on
RECURSIVE load_env_from(_, _, _)
load_env_from(environ, lines, n) ==
    IF n > Len(lines) THEN [ok |-> TRUE, exc |-> None, environ |-> environ]
    ELSE LET line == StripLine(lines[n])
         IN  IF line # <<>> /\ line[1] # "#"
                    /\ \E m \in 1..Len(line) : line[m] = "="
             THEN LET r == setdefault(environ, SplitOnce(line).key,
                                      SplitOnce(line).value)
                  IN  IF r.ok THEN load_env_from(r.environ, lines, n + 1)
                      ELSE r
             ELSE load_env_from(environ, lines, n + 1)

load_env(environ, file) ==
    IF file.exists THEN load_env_from(environ, file.lines, 1)
    ELSE [ok |-> TRUE, exc |-> None, environ |-> environ]

KeyName == <<"LITELLM_API_KEY">>

\* lines a .env file is made of
EnvLines ==
    { <<>>,
      <<" ">>,
      <<" ", "#">>,
      <<"#", " ", "LITELLM_API_KEY", "=", "sk-old">>,
      <<"LITELLM_API_KEY">>,
      <<"LITELLM_API_KEY", "=", "sk-file">>,
      <<" ", "LITELLM_API_KEY", "=", "sk-other", " ">>,
      <<"OTHER", "=", "a", "=", "b">>,
      <<"=", "x">> }

EnvFiles ==
    { [exists |-> FALSE, lines |-> <<>>] }
    \cup { [exists |-> TRUE, lines |-> l] :
             l \in {<<>>} \cup {<<a>> : a \in EnvLines}
                   \cup {<<a, b>> : a, b \in EnvLines} }

\* os.environ before the call: without the key, with it, with it empty
Environs ==
    { [k \in {} |-> <<>>],
      (KeyName :> <<"sk-key">>),
      (KeyName :> <<>>) }

\* load_env()
UnitLoadEnv ==
    /\ pc = "Unit"
    /\ \E environ \in Environs, file \in EnvFiles :
       \E r \in {load_env(environ, file)} :
         /\ trials' = Append(trials, [fn |-> "load_env", environ |-> environ,
                                      file |-> file, result |-> r])
         /\ opened' = Append(opened, ".env")
         /\ IF r.ok
            THEN pc' = "UnitEnv" /\ exc' = exc
            ELSE pc' = "UnitRaised" /\ exc' = r.exc
    /\ UNCHANGED <<count, output, api_key, condition_a, condition_b, i, stdout,
                   calls, sleeps, files, rowIter, replies, demo_options,
                   trait_defs, results, condition_key, messages, metadata>>
    /\ UNCHANGED guiVars

\* suffixes of the condition files passed in directly
UnitSuffixes ==
    {".txt", ".TXT", ".png", ".PNG", ".jpg", ".JPG", ".jpeg", ".Jpeg",
     ".gif", ".GIF", ".pdf", ".PDF", ".docx", ""}

\* load_condition(file_path)
UnitLoadCondition ==
    /\ pc = "Unit"
    /\ \E suffix \in UnitSuffixes, file \in FilesAt(" 3 ") :
       \E r \in {load_condition([name |-> "condition", suffix |-> suffix], file)} :
         /\ trials' = Append(trials, [fn |-> "load_condition", suffix |-> suffix,
                                      file |-> file, result |-> r])
         /\ opened' = Append(opened, "condition")
         /\ IF r.ok
            THEN pc' = "UnitCondition" /\ exc' = exc
            ELSE pc' = "UnitRaised" /\ exc' = r.exc
    /\ UNCHANGED <<count, output, api_key, condition_a, condition_b, i, stdout,
                   calls, sleeps, files, rowIter, replies, demo_options,
                   trait_defs, results, condition_key, messages, metadata>>
    /\ UNCHANGED guiVars

PureNext ==
    \/ UnitLoadConfig
    \/ UnitGenerate
    \/ UnitBuild
    \/ UnitBuildAgain
    \/ UnitRecord
    \/ UnitLoadCondition
    \/ UnitLoadEnv

PureSpec == PureInit /\ [][PureNext]_vars

\* ------------------------------------------------------------------------
\* Properties
\* ------------------------------------------------------------------------

\* number of "Error on iteration k" lines printed
LogCount(k) == Cardinality({n \in 1..Len(stdout) : stdout[n].iteration = k})

\* number of rows appended by iteration k
RowCount(k) == Cardinality({n \in 1..Len(rowIter) : rowIter[n] = k})

\* number of completion requests sent by iteration k
CallCount(k) == Cardinality({n \in 1..Len(calls) : calls[n].iteration = k})

\* iteration k has left its try statement
TryExited(k) == k < i \/ (k = i /\ pc \in {"Recorded", "Skipped"})

\* iteration k ran its try body to the end without an exception
Succeeded(k) == TryExited(k) /\ LogCount(k) = 0

Iterations == 0..(count - 1)

\* C1: at every moment results holds exactly one row for each iteration that
\* completed its model call and answer extraction without an exception, none
\* for an iteration that raised, and a row of iteration k exists only once
\* the call of iteration k has been sent and has returned.
C1_RowsAreSuccessfulCalls ==
    /\ Len(results) = Len(rowIter)
    /\ \A n \in 1..Len(rowIter) : rowIter[n] \in Iterations
    /\ \A k \in Iterations : RowCount(k) = IF Succeeded(k) THEN 1 ELSE 0
    /\ \A k \in Iterations :
         RowCount(k) = 1 => CallCount(k) = 1 /\ ~(k = i /\ pc = "Calling")

C1_Witness ==
    /\ pc = "Recorded"
    /\ Len(results) = 2
    /\ Len(stdout) = 1

\* C2: when the run reaches the export, the number of exported rows is at
\* most count and equals count minus the number of error lines printed.
C2_ExportedRowCount ==
    /\ pc = "Finished" => Len(results) = count - Len(stdout)
    /\ pc = "Returned" =>
         /\ Len(files) = 1
         /\ Len(files[1].df.rows) <= count
         /\ Len(files[1].df.rows) = count - Len(stdout)

C2_Witness ==
    /\ pc = "Returned"
    /\ count = 3
    /\ Len(stdout) = 2
    /\ Len(files[1].df.rows) = 1

\* C3: an exception in iteration k is caught: it prints exactly one line
\* naming k, adds no row for k, never leaves simulate_participants, and the
\* loop goes on to k+1 (or to the export after the last index), so that at
\* the export every index has either its row or its line; a failure on
\* iteration 1 of 3 exports exactly 2 rows.
C3_Inv ==
    /\ \A k \in Iterations :
         /\ LogCount(k) <= 1
         /\ LogCount(k) = 1 => RowCount(k) = 0 /\ k <= i
    /\ pc = "Skipped" =>
         /\ LogCount(i) = 1
         /\ stdout[Len(stdout)].iteration = i
    /\ pc = "Raised" => condition_key = None /\ stdout = <<>>
    /\ pc \in {"Finished", "Returned"} =>
         \A k \in Iterations : LogCount(k) + RowCount(k) = 1
    /\ (pc = "Returned" /\ count = 3 /\ LogCount(1) = 1 /\ Len(stdout) = 1) =>
         Len(files[1].df.rows) = 2

C3_Step ==
    /\ pc \in {"Building", "Calling"} => pc' # "Raised"
    /\ pc = "Skipped" =>
         /\ i' = i + 1
         /\ pc' = IF i' < count THEN "Pending" ELSE "Finished"
         /\ stdout' = stdout
    /\ pc = "Finished" => pc' = "Returned" /\ Len(files') = 1

\* C3 as one property: the invariant and the steps out of a failed iteration
C3_FailureIsSkipped == []C3_Inv /\ [][C3_Step]_vars

C3_Witness ==
    /\ pc = "Returned"
    /\ count = 3
    /\ LogCount(1) = 1
    /\ Len(stdout) = 1
    /\ Len(files[1].df.rows) = 2

\* C4: without a credential (LITELLM_API_KEY absent or empty) the run stops
\* with RuntimeError right after reading the environment: the profile config
\* and the condition files are never looked at, no completion call is made
\* and nothing is exported.
C4_NoCredentialHalts ==
    (pc # "Start" /\ api_key \in {None, ""}) =>
        /\ pc = "Raised"
        /\ exc = "RuntimeError"
        /\ opened = <<".env">>
        /\ demo_options = EmptyDict
        /\ trait_defs = <<>>
        /\ condition_a = <<>>
        /\ condition_b = <<>>
        /\ calls = <<>>
        /\ results = <<>>
        /\ stdout = <<>>
        /\ files = <<>>

C4_Witness ==
    /\ pc = "Raised"
    /\ api_key = ""
    /\ count > 0

\* C5: when a condition file cannot be loaded the run stops with the error
\* of load_condition before the loop: no iteration is entered, no completion
\* call is made, nothing is printed by the handler and nothing is exported.
C5_ConditionFailureHalts ==
    ((\E n \in 1..Len(opened) : opened[n] = "conditionA.txt")
        /\ (condition_a = <<>> \/ condition_b = <<>>)) =>
        /\ pc = "Raised"
        /\ exc \in {"OSError", "ValueError"}
        /\ i = 0
        /\ condition_key = None
        /\ calls = <<>>
        /\ results = <<>>
        /\ stdout = <<>>
        /\ files = <<>>

C5_Witness ==
    /\ pc = "Raised"
    /\ exc = "OSError"
    /\ condition_a # <<>>
    /\ condition_b = <<>>
    /\ count > 0

\* C6: a run whose iterations all fail (or that has none) returns normally
\* with an export that has no data rows but still has the column headers.
C6_EmptyExportHasHeader ==
    (pc = "Returned" /\ Len(stdout) = count) =>
        /\ Len(files) = 1
        /\ files[1].df.rows = <<>>
        /\ files[1].df.columns # {}

\* C7: the spreadsheet is written at most once, only when every iteration
\* has ended with its row or its error line, with all the rows; a run that
\* got past the credential and the condition files does write it.
C7_Inv ==
    /\ Len(files) <= 1
    /\ files # <<>> =>
         /\ pc = "Returned"
         /\ i = count
         /\ \A k \in Iterations : LogCount(k) + RowCount(k) = 1
         /\ Len(files[1].df.rows) = Len(results)
    /\ pc = "Returned" => Len(files) = 1

\* C7 as one property: one write, after the loop, and it does happen
C7_SingleWriteAfterLoop ==
    /\ []C7_Inv
    /\ [][files' # files => pc = "Finished"]_vars
    /\ (condition_b # <<>>) ~> (Len(files) = 1)

C7_Witness ==
    /\ pc = "Returned"
    /\ count = 2
    /\ Len(files) = 1
    /\ Len(files[1].df.rows) = 1
    /\ Len(stdout) = 1

\* C8: the loop moves Pending(i) -> Invoking -> Recorded or Skipped ->
\* Pending(i+1), leaves for Finished only after index count-1, and a run
\* whose completion calls all return or raise reaches Finished with exactly
\* count iterations behind it.
Invoking == pc \in {"Building", "Calling"}

C8_Step ==
    /\ pc = "Pending" => pc' = "Building" /\ i' = i
    /\ Invoking =>
         /\ pc' \in {"Building", "Calling", "Recorded", "Skipped"}
         /\ i' = i
    /\ pc \in {"Recorded", "Skipped"} =>
         /\ i' = i + 1
         /\ \/ pc' = "Pending" /\ i' < count
            \/ pc' = "Finished" /\ i' = count
    /\ pc' = "Pending" => pc \in {"LoadConditions", "Recorded", "Skipped"}
    /\ pc' = "Finished" => pc \in {"LoadConditions", "Recorded", "Skipped"}

C8_Inv ==
    /\ pc \in {"Pending", "Building", "Calling", "Recorded", "Skipped"} =>
         i \in Iterations
    /\ pc = "Finished" =>
         /\ i = count
         /\ Len(results) + Len(stdout) = count

\* C8 as one property: the transitions of the loop and its termination
C8_LoopRunsToFinished ==
    /\ []C8_Inv
    /\ [][C8_Step]_vars
    /\ (pc = "Pending") ~> (pc = "Finished")

C8_Witness ==
    /\ pc = "Finished"
    /\ count = 2
    /\ Len(results) = 1
    /\ Len(stdout) = 1

\* C9: nothing is retried: an index sends at most one completion request,
\* the requests are in index order, there are at most count of them, and the
\* loop index never goes back.
C9_Inv ==
    /\ Len(calls) <= count
    /\ \A k \in Iterations : CallCount(k) <= 1
    /\ \A n \in 1..Len(calls) : calls[n].iteration \in Iterations
    /\ \A m, n \in 1..Len(calls) :
         m < n => calls[m].iteration < calls[n].iteration

C9_Step ==
    /\ i' >= i
    /\ pc \in {"Recorded", "Skipped"} => i' = i + 1

\* C9 as one property: one request per index, index never goes back
C9_NoRetry == []C9_Inv /\ [][C9_Step]_vars

C9_Witness ==
    /\ pc = "Finished"
    /\ count = 3
    /\ Len(calls) = 3
    /\ Len(stdout) = 2

\* C10: rows are in iteration order, a row that was appended keeps its
\* place and its content, and the export holds the rows in that order.
C10_Inv ==
    /\ \A m, n \in 1..Len(rowIter) : m < n => rowIter[m] < rowIter[n]
    /\ pc = "Returned" => files[1].df.rows = results

C10_Step ==
    /\ Len(results') >= Len(results)
    /\ \A n \in 1..Len(results) :
         results'[n] = results[n] /\ rowIter'[n] = rowIter[n]

\* C10 as one property: ordered rows that are never touched again
C10_RowsInIterationOrder == []C10_Inv /\ [][C10_Step]_vars

C10_Witness ==
    /\ pc = "Returned"
    /\ Len(files[1].df.rows) = 3
    /\ files[1].df.rows[1] # files[1].df.rows[2]
    /\ files[1].df.rows[2] # files[1].df.rows[3]

\* ------------------------------------------------------------------------
\* Properties of the helper functions (PureSpec)
\* ------------------------------------------------------------------------

\* the latest direct call
LastTrial == trials[Len(trials)]

\* the age range, sex list and culture list the loaded config asks for
AgeRangeOf(d) == Get(d, "age_range", <<18, 65>>)
SexesOf(d) == Get(d, "sex", <<"male", "female">>)
CulturesOf(d) == Get(d, "culture_background", DefaultCultures)
TraitNamesOf(t) == IF t # <<>> THEN Keys(t) ELSE DefaultTraits

\* a config of valid shape: [lo, hi] with lo <= hi and non-empty lists
ValidOptions(d) ==
    /\ Len(AgeRangeOf(d)) = 2
    /\ AgeRangeOf(d)[1] <= AgeRangeOf(d)[2]
    /\ Len(SexesOf(d)) > 0
    /\ Len(CulturesOf(d)) > 0

Range(seq) == {seq[n] : n \in 1..Len(seq)}

GeneratedAge == LastTrial.result.demographics["Age"]

\* C11: for a valid config the generated age lies in [lo, hi], every trait
\* of the config gets an integer in 1..7, and both lo and hi can be drawn
C11_InRange ==
    (pc = "UnitGenerated" /\ ValidOptions(demo_options)) =>
        /\ LastTrial.result.ok
        /\ GeneratedAge \in AgeRangeOf(demo_options)[1]..AgeRangeOf(demo_options)[2]
        /\ Keys(LastTrial.result.characteristics) = TraitNamesOf(trait_defs)
        /\ \A n \in 1..Len(LastTrial.result.characteristics) :
             LastTrial.result.characteristics[n][2] \in 1..7

C11_Attainable ==
    (pc = "UnitLoaded" /\ ValidOptions(demo_options)) =>
        /\ ENABLED (UnitGenerate /\ GeneratedAge' = AgeRangeOf(demo_options)[1])
        /\ ENABLED (UnitGenerate /\ GeneratedAge' = AgeRangeOf(demo_options)[2])

C11_AgeAndTraitsInRange == C11_InRange /\ C11_Attainable

C11_Witness ==
    /\ pc = "UnitGenerated"
    /\ "age_range" \in DOMAIN demo_options
    /\ AgeRangeOf(demo_options) = <<20, 21>>
    /\ GeneratedAge = 21
    /\ trait_defs # <<>>
    /\ LastTrial.result.characteristics[1][2] = 7

\* C12: the profile generator has no error outcome: loading the config and
\* generating a participant always return, whatever the config holds
C12_NoErrorOutcome ==
    \A n \in 1..Len(trials) :
        trials[n].fn \in {"load_profile_config", "generate_participant_details",
                          "build_messages"} => trials[n].result.ok

\* C13: a missing config file loads as empty demographics and traits; a
\* field the config omits is drawn from its built-in default (18..65,
\* male/female, the seven cultures, the five Big Five traits) whatever the
\* other fields say, and a field it supplies is drawn from its candidates
C13_AbsentFileIsEmpty ==
    \A n \in 1..Len(trials) :
        (trials[n].fn = "load_profile_config" /\ ~trials[n].file.exists) =>
            /\ trials[n].result.ok
            /\ trials[n].result.demographics = EmptyDict
            /\ trials[n].result.traits = <<>>

C13_FieldDefaults ==
    (pc = "UnitGenerated") =>
        LET d == LastTrial.result.demographics
            names == Keys(LastTrial.result.characteristics)
        IN  /\ IF "age_range" \in DOMAIN demo_options
               THEN d["Age"] \in demo_options["age_range"][1]..demo_options["age_range"][2]
               ELSE d["Age"] \in 18..65
            /\ IF "sex" \in DOMAIN demo_options
               THEN d["Sex"] \in Range(demo_options["sex"])
               ELSE d["Sex"] \in {"male", "female"}
            /\ IF "culture_background" \in DOMAIN demo_options
               THEN d["Culture Background"] \in Range(demo_options["culture_background"])
               ELSE d["Culture Background"] \in
                        {"Caucasian", "African", "Asian", "Latino",
                         "Middle Eastern", "Indigenous", "Mixed"}
            /\ IF trait_defs = <<>>
               THEN names = <<"extraversion", "agreeableness",
                              "conscientiousness", "neuroticism", "openness">>
               ELSE names = Keys(trait_defs)

C13_DefaultsPerField == C13_AbsentFileIsEmpty /\ C13_FieldDefaults

C13_Witness ==
    /\ pc = "UnitGenerated"
    /\ DOMAIN demo_options = {"sex"}
    /\ trait_defs = <<>>
    /\ GeneratedAge = 65
    /\ LastTrial.result.demographics["Sex"] = "female"
    /\ Len(LastTrial.result.characteristics) = 5

\* the direct calls of build_messages that returned
BuildTrials ==
    {n \in 1..Len(trials) : trials[n].fn = "build_messages" /\ trials[n].result.ok}

\* the persona a system message renders: age, sex, culture, then per trait
\* its name, value and scale meaning
PersonaOf(details, traits) ==
    [age |-> details.demographics["Age"],
     sex |-> details.demographics["Sex"],
     culture |-> details.demographics["Culture Background"],
     traits |-> [n \in 1..Len(details.characteristics) |->
         <<details.characteristics[n][1], details.characteristics[n][2],
           PairGet(traits, details.characteristics[n][1],
                   "1=very low, 7=very high")>>]]

\* C14: build_messages returns exactly four messages: the system persona
\* (age, sex, culture, one sentence per trait in trait order with value and
\* meaning), the condition content unchanged, the fixed "think carefully"
\* instruction, the fixed rating-only instruction
C14_FourMessagesInOrder ==
    \A n \in BuildTrials :
        LET m == trials[n].result.messages
        IN  /\ Len(m) = 4
            /\ m[1] = [role |-> "system",
                       content |-> PersonaOf(trials[n].details, trait_defs)]
            /\ Keys(trials[n].details.characteristics) = TraitNamesOf(trait_defs)
            /\ m[2] = [role |-> "user", content |-> trials[n].content]
            /\ m[3] = [role |-> "user",
                       content |-> "Think carefully about what kind of person you are."]
            /\ m[4] = [role |-> "user",
                       content |-> "Now, based on your thoughts, what is your final answer? Output your rating only please."]

C14_Witness ==
    /\ pc = "UnitBuilt"
    /\ Len(trait_defs) = 2
    /\ LastTrial.result.ok
    /\ LastTrial.result.messages[1].content.traits[2] =
           <<"grit", 2, "1=gives up, 7=persists">>
    /\ LastTrial.result.messages[2].content[1].text = TextB

CallOf(k) == calls[CHOOSE m \in 1..Len(calls) : calls[m].iteration = k]

\* the persona in the system message sent in iteration k
PersonaSent(k) == CallOf(k).messages[1].content

PersonaColumns(p) ==
    {"Age", "Sex", "Culture Background"}
        \cup {Title(p.traits[j][1]) : j \in 1..Len(p.traits)}

C17_ContentMatchesCondition ==
    \A n \in 1..Len(results) :
        /\ results[n]["Condition"] \in {"condition A", "condition B"}
        /\ CallOf(rowIter[n]).messages[2].content =
               IF results[n]["Condition"] = "condition A"
               THEN condition_a ELSE condition_b
        /\ CallOf(rowIter[n]).messages[2].content[1].text =
               IF results[n]["Condition"] = "condition A"
               THEN TextA ELSE TextB

C17_Witness ==
    /\ pc = "Returned"
    /\ Len(results) = 2
    /\ results[1]["Condition"] = "condition B"
    /\ results[2]["Condition"] = "condition A"
    /\ CallOf(rowIter[1]).messages[2].content[1].text = TextB
    /\ CallOf(rowIter[2]).messages[2].content[1].text = TextA

\* C18: whatever the earlier iterations chose, an iteration about to start
\* can take condition A and can take condition B
C18_BothConditionsPossible ==
    (pc = "Pending") =>
        /\ ENABLED (EnterIteration /\ condition_key' = "condition A")
        /\ ENABLED (EnterIteration /\ condition_key' = "condition B")

C18_Witness ==
    /\ pc = "Returned"
    /\ count = 3
    /\ Len(results) = 3
    /\ \A n \in 1..3 : results[n]["Condition"] = "condition A"

\* the answer to the request of iteration k
ReplyOf(k) == replies[CHOOSE m \in 1..Len(replies) : replies[m].iteration = k]

\* every iteration sent its request and got a text back
EveryCallSucceeded ==
    \A k \in Iterations :
        /\ CallCount(k) = 1
        /\ ReplyOf(k).kind = "returned"
        /\ ReplyOf(k).value # None

\* the rows of the exported sheet
Exported == files[Len(files)].df.rows

\* C19: when every call succeeds, a run of N participants exports N rows
\* and the DV of each row is the stripped text returned in its iteration
C19_DVIsOwnReply ==
    (pc = "Returned" /\ EveryCallSucceeded) =>
        /\ Len(Exported) = count
        /\ \A n \in 1..Len(Exported) :
             /\ rowIter[n] = n - 1
             /\ Exported[n]["DV"] = Strip(ReplyOf(n - 1).value)

C19_Witness ==
    /\ pc = "Returned"
    /\ count = 3
    /\ EveryCallSucceeded
    /\ \A k \in Iterations : ReplyOf(k).value = "5"
    /\ Len(Exported) = 3
    /\ \A n \in 1..3 : Exported[n]["DV"] = "5"

\* C20: a row has a column for each of Age, Sex and Culture Background
\* holding the generated value, a column of its own for every trait of the
\* config holding that trait's value, and Condition and DV, whatever the
\* trait names are
C20_EveryFieldHasItsColumn ==
    (pc = "UnitRecorded") =>
        LET row == results[Len(results)]
            d == LastTrial.details.demographics
            c == LastTrial.details.characteristics
        IN  /\ Cardinality(DOMAIN row) = 3 + Len(c) + 2
            /\ row["Age"] = d["Age"]
            /\ row["Sex"] = d["Sex"]
            /\ row["Culture Background"] = d["Culture Background"]
            /\ \A j \in 1..Len(c) :
                 /\ Title(c[j][1]) \in DOMAIN row
                 /\ row[Title(c[j][1])] = c[j][2]
            /\ row["Condition"] = condition_key
            /\ "DV" \in DOMAIN row

\* C21: the delay runs once after every iteration that recorded a row,
\* before the next iteration starts and after the last one too, and never
\* after an iteration that failed
C21_DelayAfterSuccessOnly ==
    /\ IF pc = "Recorded"
       THEN rowIter = Append(sleeps, i)
       ELSE sleeps = rowIter
    /\ \A n \in 1..Len(sleeps) : LogCount(sleeps[n]) = 0

C21_Witness ==
    /\ pc = "Returned"
    /\ count = 3
    /\ sleeps = <<0, 2>>
    /\ LogCount(1) = 1

\* C23: load_condition returns one part: a text part for .txt, an image_url
\* part for .png/.jpg/.jpeg/.gif in any letter case with jpg and jpeg as
\* mime jpeg; any other suffix raises and returns nothing
C23_OnePartOrError ==
    \A n \in 1..Len(trials) :
        (trials[n].fn = "load_condition" /\ trials[n].file.readable) =>
            LET r == trials[n].result
                suffix == trials[n].suffix
            IN  IF suffix \in {".txt", ".TXT"}
                THEN /\ r.ok
                     /\ Len(r.parts) = 1
                     /\ r.parts[1].type = "text"
                ELSE IF suffix \in {".png", ".PNG", ".jpg", ".JPG", ".jpeg",
                                    ".Jpeg", ".gif", ".GIF"}
                THEN /\ r.ok
                     /\ Len(r.parts) = 1
                     /\ r.parts[1].type = "image_url"
                     /\ r.parts[1].mime =
                            IF suffix \in {".jpg", ".JPG", ".jpeg", ".Jpeg"}
                            THEN "jpeg"
                            ELSE IF suffix \in {".png", ".PNG"} THEN "png"
                            ELSE "gif"
                ELSE /\ ~r.ok
                     /\ r.exc = "ValueError"

C23_Witness ==
    /\ pc = "UnitCondition"
    /\ LastTrial.suffix = ".JPG"
    /\ LastTrial.result.parts[1].mime = "jpeg"

\* lines that are blank, start with "#" or hold no "="
InertLines ==
    { <<>>, <<" ">>, <<" ", "#">>,
      <<"#", " ", "LITELLM_API_KEY", "=", "sk-old">>,
      <<"LITELLM_API_KEY">> }

\* C24: load_env keeps every variable the environment already has, a
\* missing file or a file of blank, "#" and "="-less lines changes nothing,
\* and the key is taken from the file only when the environment lacks it
C24_OnlyAddsUnsetVariables ==
    \A n \in 1..Len(trials) :
        (trials[n].fn = "load_env") =>
            LET before == trials[n].environ
                after == trials[n].result.environ
                lines == trials[n].file.lines
            IN  /\ \A k \in DOMAIN before :
                     k \in DOMAIN after /\ after[k] = before[k]
                /\ (~trials[n].file.exists) => after = before
                /\ (\A m \in 1..Len(lines) : lines[m] \in InertLines) =>
                       after = before
                /\ (KeyName \notin DOMAIN before /\ Len(lines) > 0
                        /\ lines[1] = <<"LITELLM_API_KEY", "=", "sk-file">>) =>
                       after[KeyName] = <<"sk-file">>

C24_Witness ==
    /\ pc = "UnitEnv"
    /\ LastTrial.environ = (KeyName :> <<"sk-key">>)
    /\ LastTrial.file.lines = << <<"LITELLM_API_KEY", "=", "sk-file">>,
                                 <<"OTHER", "=", "a", "=", "b">> >>
    /\ LastTrial.result.environ[KeyName] = <<"sk-key">>
    /\ LastTrial.result.environ[<<"OTHER">>] = <<"a", "=", "b">>

\* ------------------------------------------------------------------------
\* gui.py: the SimulatorGUI window, its callbacks and its worker threads
\* ------------------------------------------------------------------------

MODEL_CATALOG ==
    ("openai" :> <<"gpt-4o-mini", "gpt-4o", "gpt-4.1">>)
    @@ ("anthropic" :> <<"claude-3-haiku-20240307", "claude-3-sonnet-20240229">>)
    @@ ("google" :> <<"gemini-1.5-flash", "gemini-1.5-pro">>)

\* the text of the status label: a fixed text, or "Done: " and a path
Status(text, path) == [text |-> text, path |-> path]

\* texts the user types into the Participants field
ParticipantTexts == {"200", " 3 ", "abc"}

\* int(text)
ParseInt(text) ==
    CASE text = "200" -> [ok |-> TRUE, value |-> 200]
      [] text = " 3 " -> [ok |-> TRUE, value |-> 3]
      [] OTHER        -> [ok |-> FALSE, exc |-> "ValueError"]

\* what simulate_participants raises when the credential is missing
RunErrors == {"RuntimeError"}

\* the path simulate_participants returns for the output it was given
ReturnedPath(out) == IF out = None THEN TimestampPath ELSE out

GuiInit ==
    /\ pc = "Gui"
    /\ count = 0
    /\ output = None
    /\ api_key = None
    /\ demo_options = EmptyDict
    /\ trait_defs = <<>>
    /\ condition_a = <<>>
    /\ condition_b = <<>>
    /\ results = <<>>
    /\ i = 0
    /\ condition_key = None
    /\ messages = <<>>
    /\ metadata = EmptyDict
    /\ exc = None
    /\ stdout = <<>>
    /\ calls = <<>>
    /\ sleeps = <<>>
    /\ files = <<>>
    /\ opened = <<>>
    /\ rowIter = <<>>
    /\ replies = <<>>
    /\ trials = <<>>
    /\ participants_var = "200"
    /\ vendor_var = "openai"
    /\ model_var = "gpt-4o-mini"
    /\ model_values = MODEL_CATALOG["openai"]
    /\ status_var = Status("Ready", None)
    /\ after_queue = <<>>
    /\ threads = <<>>
    /\ dialogs = <<>>
    /\ dlg = None

\* everything but the window: no callback of gui.py touches it, except
\* that exc holds the exception that left the latest callback
guiUnused == <<pc, count, output, api_key, demo_options, trait_defs,
               condition_a, condition_b, results, i, condition_key, messages,
               metadata, stdout, calls, sleeps, files, opened, rowIter,
               replies, trials, dlg>>

\* the user types into the Participants field
EditParticipants ==
    /\ \E text \in ParticipantTexts :
         /\ text # participants_var
         /\ participants_var' = text
    /\ UNCHANGED <<guiUnused, exc, vendor_var, model_var, model_values,
                   status_var, after_queue, threads, dialogs>>

\* the user picks a model from the read-only Model box
SelectModel ==
    /\ \E m \in 1..Len(model_values) :
         /\ model_values[m] # model_var
         /\ model_var' = model_values[m]
    /\ UNCHANGED <<guiUnused, exc, participants_var, vendor_var, model_values,
                   status_var, after_queue, threads, dialogs>>

\* variant: a vendor change refreshes the list and keeps the selection
OnVendorChange_KeepsModel ==
    /\ \E v \in DOMAIN MODEL_CATALOG :
         /\ vendor_var' = v
         /\ model_values' = Get(MODEL_CATALOG, v, <<>>)
         /\ model_var' = model_var
    /\ exc' = "NameError"
    /\ UNCHANGED <<guiUnused, participants_var, status_var, after_queue,
                   threads, dialogs>>

\* the user picks a vendor from the read-only Vendor box, which runs
\* _on_vendor_change; after the reset the body goes on into statements that
\* name frm, which is not defined there, and Tk reports the NameError
OnVendorChange ==
    /\ \E v \in DOMAIN MODEL_CATALOG :
         /\ vendor_var' = v
         /\ model_values' = Get(MODEL_CATALOG, v, <<>>)
         /\ model_var' = IF model_values' # <<>> THEN model_values'[1]
                         ELSE model_var
    /\ exc' = "NameError"
    /\ UNCHANGED <<guiUnused, participants_var, status_var, after_queue,
                   threads, dialogs>>

\* Start clicks so far: runs scheduled or started, and rejected inputs
StartClicks ==
    Len(after_queue) + Len(threads)
        + Cardinality({n \in 1..Len(dialogs) : dialogs[n].title = "Invalid input"})

Dialog(kind, title, message) ==
    [kind |-> kind, title |-> title, message |-> message]

\* variant: the status is set before the count is parsed
Start_StatusFirst ==
    /\ StartClicks < MaxStarts
    /\ LET r == ParseInt(participants_var)
       IN  IF ~r.ok
           THEN /\ dialogs' = Append(dialogs,
                      Dialog("showerror", "Invalid input",
                             "Participants must be an integer"))
                /\ status_var' = Status("Running...", None)
                /\ UNCHANGED after_queue
           ELSE /\ \E out \in Outputs :
                     after_queue' = Append(after_queue, [output |-> out])
                /\ status_var' = Status("Running...", None)
                /\ UNCHANGED dialogs
    /\ exc' = None
    /\ UNCHANGED <<guiUnused, participants_var, vendor_var, model_var,
                   model_values, threads>>

\* _start: the Start Simulation button.  The output field is read here; of
\* the arguments handed to the worker the output is kept, which decides the
\* path a run returns; the count, the model and the profile path do not
\* change what the callbacks do
Start ==
    /\ StartClicks < MaxStarts
    /\ LET r == ParseInt(participants_var)
       IN  IF ~r.ok
           THEN /\ dialogs' = Append(dialogs,
                      Dialog("showerror", "Invalid input",
                             "Participants must be an integer"))
                /\ UNCHANGED <<status_var, after_queue>>
           ELSE /\ \E out \in Outputs :
                     after_queue' = Append(after_queue, [output |-> out])
                /\ status_var' = Status("Running...", None)
                /\ UNCHANGED dialogs
    /\ exc' = None
    /\ UNCHANGED <<guiUnused, participants_var, vendor_var, model_var,
                   model_values, threads>>

\* the after(100, ...) callback: _run_simulation starts a worker thread
TimerFires ==
    /\ after_queue # <<>>
    /\ threads' = Append(threads, [args |-> Head(after_queue),
                                   state |-> "running", result |-> None])
    /\ after_queue' = Tail(after_queue)
    /\ exc' = None
    /\ UNCHANGED <<guiUnused, participants_var, vendor_var, model_var,
                   model_values, status_var, dialogs>>

\* task() of worker t: simulate_participants returned
TaskReturns(t) ==
    /\ t \in 1..Len(threads)
    /\ threads[t].state = "running"
    /\ LET result == ReturnedPath(threads[t].args.output)
       IN  /\ status_var' = Status("Done: ", result)
           /\ dialogs' = Append(dialogs,
                  Dialog("showinfo", "Simulation complete", result))
           /\ threads' = [threads EXCEPT ![t].state = "finished",
                                         ![t].result = result]
    /\ UNCHANGED <<guiUnused, exc, participants_var, vendor_var, model_var,
                   model_values, after_queue>>

\* variant: the exception ends the thread with no handler
TaskRaises_Uncaught(t) ==
    /\ t \in 1..Len(threads)
    /\ threads[t].state = "running"
    /\ \E e \in RunErrors :
         threads' = [threads EXCEPT ![t].state = "crashed", ![t].result = e]
    /\ UNCHANGED <<guiUnused, exc, participants_var, vendor_var, model_var,
                   model_values, after_queue, status_var, dialogs>>

\* task() of worker t: simulate_participants raised
TaskRaises(t) ==
    /\ t \in 1..Len(threads)
    /\ threads[t].state = "running"
    /\ \E e \in RunErrors :
         /\ status_var' = Status("Error", None)
         /\ dialogs' = Append(dialogs,
                Dialog("showerror", "Simulation failed", e))
         /\ threads' = [threads EXCEPT ![t].state = "finished",
                                       ![t].result = e]
    /\ UNCHANGED <<guiUnused, exc, participants_var, vendor_var, model_var,
                   model_values, after_queue>>

WorkerReturns == \E t \in 1..Len(threads) : TaskReturns(t)

WorkerRaises == \E t \in 1..Len(threads) : TaskRaises(t)

GuiNext ==
    \/ EditParticipants
    \/ SelectModel
    \/ OnVendorChange
    \/ Start
    \/ TimerFires
    \/ WorkerReturns
    \/ WorkerRaises

GuiSpec == GuiInit /\ [][GuiNext]_vars

\* the event loop runs scheduled callbacks, and a run that was started
\* returns or raises
GuiFairSpec ==
    /\ GuiInit
    /\ [][GuiNext]_vars
    /\ WF_vars(TimerFires)
    /\ \A t \in 1..MaxStarts : WF_vars(TaskReturns(t) \/ TaskRaises(t))

\* ------------------------------------------------------------------------
\* Properties of the window of gui.py (GuiSpec, GuiFairSpec)
\* ------------------------------------------------------------------------

Running == {t \in 1..Len(threads) : threads[t].state = "running"}

\* C22: whatever Start clicks were made, at most one worker thread is
\* running simulate_participants at any time
C22_AtMostOneWorker == Cardinality(Running) <= 1

\* the latest message box
LastDialog == dialogs[Len(dialogs)]

\* C25: a Start that shows the "Invalid input" error leaves the status, the
\* scheduled callbacks and the threads as they were, and only a Start on an
\* integer text schedules a run or sets the status to Running...
C25_Step ==
    /\ (Len(dialogs') > Len(dialogs) /\ dialogs'[Len(dialogs')].title = "Invalid input")
           => /\ participants_var \notin {"200", " 3 "}
              /\ UNCHANGED <<status_var, after_queue, threads>>
    /\ (Len(after_queue') > Len(after_queue) \/
            (status_var' # status_var /\ status_var'.text = "Running..."))
           => participants_var \in {"200", " 3 "}

C25_InvalidStartHasNoEffect == [][C25_Step]_vars

C25_Witness ==
    /\ participants_var = "abc"
    /\ dialogs # <<>>
    /\ LastDialog = Dialog("showerror", "Invalid input",
                           "Participants must be an integer")
    /\ status_var = Status("Ready", None)
    /\ after_queue = <<>>
    /\ threads = <<>>

\* C26: a Start that schedules a run sets the status to Running..., a run
\* that returns sets it to Done: with the path returned, a run that raises
\* sets it to Error inside the thread, and every scheduled run gets there
C26_Step ==
    /\ Len(after_queue') > Len(after_queue)
           => status_var' = Status("Running...", None)
    /\ \A t \in 1..Len(threads) :
           (threads[t].state = "running" /\ threads'[t].state # "running") =>
               /\ threads'[t].state = "finished"
               /\ status_var' =
                      IF threads'[t].result \in RunErrors
                      THEN Status("Error", None)
                      ELSE Status("Done: ", ReturnedPath(threads[t].args.output))

C26_StatusFollowsRun ==
    /\ [][C26_Step]_vars
    /\ \A t \in 1..MaxStarts :
           (Len(after_queue) + Len(threads) >= t)
               ~> (Len(threads) >= t /\ threads[t].state = "finished")

C26_Witness ==
    /\ Len(threads) = 2
    /\ threads[1].state = "finished"
    /\ threads[1].result \in RunErrors
    /\ threads[2].state = "finished"
    /\ threads[2].result = "out.xlsx"
    /\ status_var = Status("Done: ", "out.xlsx")

\* C27: the selected model is one of the selected vendor's models, and a
\* change of vendor selects the new vendor's first model
C27_Inv ==
    /\ vendor_var \in DOMAIN MODEL_CATALOG
    /\ model_var \in Range(MODEL_CATALOG[vendor_var])

C27_Step ==
    vendor_var' # vendor_var => model_var' = MODEL_CATALOG[vendor_var'][1]

C27_ModelBelongsToVendor == []C27_Inv /\ [][C27_Step]_vars

C27_Witness ==
    /\ vendor_var = "anthropic"
    /\ model_var = "claude-3-sonnet-20240229"
    /\ exc = "NameError"

\* ------------------------------------------------------------------------
\* app.py: the New Run dialog and its Start Simulation callback
\* ------------------------------------------------------------------------

\* def simulate_participants(count, model, output=None, profile_config=None)
Signature == <<"count", "model", "output", "profile_config">>

\* binding the arguments of a call to the parameters of the function
BindCall(signature, positional, keywords) ==
    IF positional > Len(signature) THEN Raise("TypeError")
    ELSE IF \E k \in keywords : k \notin Range(signature) THEN Raise("TypeError")
    ELSE IF \E k \in keywords : \E n \in 1..positional : signature[n] = k
    THEN Raise("TypeError")
    ELSE [ok |-> TRUE, exc |-> None]

\* models the provider box offers; the GitHub list comes from the network
\* and is empty when the request fails
ProviderModels(name) ==
    CASE name = "OpenAI" -> {<<"gpt-4o-mini", "gpt-4o", "gpt-3.5-turbo">>}
      [] name = "Gemini" -> {<<"gemini-1.5-flash", "gemini-1.5-pro">>}
      [] OTHER           -> {<<>>, <<"openai/gpt-4.1">>}

\* texts of the Participants spinbox, and IntVar.get() on them
AppParticipantTexts == {"200", "5", "2.5", "abc"}

IntVarGet(text) ==
    CASE text = "200" -> [ok |-> TRUE, value |-> 200]
      [] text = "5"   -> [ok |-> TRUE, value |-> 5]
      [] text = "2.5" -> [ok |-> TRUE, value |-> 2]
      [] OTHER        -> [ok |-> FALSE, exc |-> "TclError"]

\* texts of a trait range entry, and lines 455-459 on them
RangeTexts == {"1-7", "2-5", "abc"}

ParseRange(text) ==
    CASE text = "2-5" -> <<2, 5>>
      [] OTHER        -> <<1, 7>>

\* the traits the form has an entry for
FormTraits == <<"openness", "grit">>

AppInit ==
    /\ pc = "Dialog"
    /\ count = 0
    /\ output = None
    /\ api_key = None
    /\ demo_options = EmptyDict
    /\ trait_defs = <<>>
    /\ condition_a = <<>>
    /\ condition_b = <<>>
    /\ results = <<>>
    /\ i = 0
    /\ condition_key = None
    /\ messages = <<>>
    /\ metadata = EmptyDict
    /\ exc = None
    /\ stdout = <<>>
    /\ calls = <<>>
    /\ sleeps = <<>>
    /\ files = <<>>
    /\ opened = <<>>
    /\ rowIter = <<>>
    /\ replies = <<>>
    /\ trials = <<>>
    /\ participants_var = "200"
    /\ vendor_var = "OpenAI"
    /\ model_var = "gpt-4o-mini"
    /\ model_values = <<"gpt-4o-mini", "gpt-4o", "gpt-3.5-turbo">>
    /\ status_var = None
    /\ after_queue = <<>>
    /\ threads = <<>>
    /\ dialogs = <<>>
    /\ dlg = "open"

appUnused == <<output, api_key, demo_options, trait_defs, condition_a,
               condition_b, results, i, condition_key, messages, metadata,
               stdout, calls, sleeps, files, opened, rowIter, replies,
               status_var, after_queue, threads>>

\* the user edits the Participants spinbox
AppEditParticipants ==
    /\ pc = "Dialog"
    /\ \E text \in AppParticipantTexts :
         /\ text # participants_var
         /\ participants_var' = text
    /\ UNCHANGED <<appUnused, pc, count, exc, trials, vendor_var, model_var,
                   model_values, dialogs, dlg>>

\* on_provider_change
OnProviderChange ==
    /\ pc = "Dialog"
    /\ \E name \in {"OpenAI", "Gemini", "GitHub"} :
       \E models \in ProviderModels(name) :
         /\ vendor_var' = name
         /\ model_values' = models
         /\ model_var' = IF models # <<>> THEN models[1] ELSE ""
    /\ UNCHANGED <<appUnused, pc, count, exc, trials, participants_var,
                   dialogs, dlg>>

\* the user picks a model from the read-only model box
AppSelectModel ==
    /\ pc = "Dialog"
    /\ \E m \in 1..Len(model_values) :
         /\ model_values[m] # model_var
         /\ model_var' = model_values[m]
    /\ UNCHANGED <<appUnused, pc, count, exc, trials, participants_var,
                   vendor_var, model_values, dialogs, dlg>>

\* start_and_close: participants.get() while building data, the trait
\* ranges, then the call of simulate_participants with traits=, the
\* handler and dlg.destroy()
StartAndClose ==
    /\ pc = "Dialog"
    /\ LET n == IntVarGet(participants_var)
       IN  IF ~n.ok
           THEN /\ pc' = "CallbackRaised"
                /\ exc' = n.exc
                /\ UNCHANGED <<count, trials, dialogs, dlg>>
           ELSE \E texts \in [1..Len(FormTraits) -> RangeTexts] :
                \E bound \in {BindCall(Signature, 2, {"traits"})} :
                  /\ trials' = Append(trials,
                        [fn |-> "simulate_participants",
                         count |-> n.value,
                         model |-> IF model_var = "" THEN "gpt-4o-mini"
                                   ELSE model_var,
                         traits |-> [t \in 1..Len(FormTraits) |->
                                        <<FormTraits[t], ParseRange(texts[t])>>],
                         result |-> bound])
                  /\ IF bound.ok
                     THEN /\ pc' = "Start"
                          /\ count' = n.value
                          /\ UNCHANGED <<exc, dialogs, dlg>>
                     ELSE /\ dialogs' = Append(dialogs,
                                Dialog("showerror", "Simulation failed", bound.exc))
                          /\ dlg' = "destroyed"
                          /\ pc' = "Closed"
                          /\ UNCHANGED <<count, exc>>
    /\ UNCHANGED <<appUnused, participants_var, vendor_var, model_var,
                   model_values>>

AppNext ==
    \/ AppEditParticipants
    \/ OnProviderChange
    \/ AppSelectModel
    \/ StartAndClose

AppSpec == AppInit /\ [][AppNext]_vars

\* C28: when Start Simulation has closed the dialog, simulate_participants
\* was entered with the count and model of the dialog and sent requests
C28_RunLoopExecutes ==
    (pc = "Closed") =>
        /\ LastTrial.result.ok
        /\ calls # <<>>

\* ------------------------------------------------------------------------
\* test.py: the legacy script, from its loop to the export
\* ------------------------------------------------------------------------

Sensitivities == <<"very low", "low", "moderate", "high", "very high">>

Moods ==
    <<"happy", "sad", "angry", "anxious", "excited", "calm", "bored",
      "confused", "frustrated", "hopeful", "relaxed", "nervous", "grateful",
      "jealous", "content">>

\* the raw generator outputs one call of the legacy generator consumes
LegacyDraw(u) ==
    [age |-> u, sex |-> u, culture |-> u, sensitivity |-> u, mood |-> u]

\* generate_participant_details() of test.py
legacy_participant_details(rnd) ==
    [age |-> randint(18, 65, rnd.age),
     sex |-> choice(<<"male", "female">>, rnd.sex),
     culture |-> choice(DefaultCultures, rnd.culture),
     sensitivity |-> choice(Sensitivities, rnd.sensitivity),
     mood |-> choice(Moods, rnd.mood)]

\* messages_options[key](): the list the lambda builds, with the two calls
\* of the generator it makes, in the order the list evaluates them
messages_options(key, condition, first, second) ==
    [participant_details |-> legacy_participant_details(first),
     selected_message |->
         <<[role |-> "system", content |-> legacy_participant_details(second)],
           [role |-> "user", content |-> condition],
           ThinkMessage,
           FinalMessage>>]

LegacyColumns ==
    {"Condition", "DV", "Age", "Sex", "Culture Background", "Mood", "Name"}

\* pd.DataFrame(results, columns=[...])
DataFrameWithColumns(rows, columns) ==
    [columns |-> columns,
     rows |-> [n \in 1..Len(rows) |->
         [c \in columns |-> Get(rows[n], c, "NaN")]]]

\* the state at line 99: key read, conditions loaded, results empty
LegacyInit ==
    /\ pc = IF MaxLegacyCount > 0 THEN "LegacyPending" ELSE "LegacyFinished"
    /\ count = MaxLegacyCount
    /\ output = None
    /\ api_key = "sk-key"
    /\ demo_options = EmptyDict
    /\ trait_defs = <<>>
    /\ condition_a = TextA
    /\ condition_b = TextB
    /\ results = <<>>
    /\ i = 0
    /\ condition_key = None
    /\ messages = <<>>
    /\ metadata = EmptyDict
    /\ exc = None
    /\ stdout = <<>>
    /\ calls = <<>>
    /\ sleeps = <<>>
    /\ files = <<>>
    /\ opened = <<>>
    /\ rowIter = <<>>
    /\ replies = <<>>
    /\ trials = <<>>
    /\ NoGui

legacyUnused == <<count, output, api_key, demo_options, trait_defs,
                  condition_a, condition_b, exc, opened, trials>>

\* lines 102-115: choose the condition, build the list, send the request
LegacyBuildAndSend ==
    /\ pc = "LegacyPending"
    /\ \E key \in {"condition A", "condition B"}, u1, u2 \in RandomSamples :
       \E r \in {messages_options(key,
                     IF key = "condition A" THEN condition_a ELSE condition_b,
                     LegacyDraw(u1), LegacyDraw(u2))} :
         /\ condition_key' = key
         /\ metadata' = r.participant_details
         /\ messages' = r.selected_message
         /\ calls' = Append(calls, [iteration |-> i,
                                    messages |-> r.selected_message])
    /\ pc' = "LegacyCalling"
    /\ UNCHANGED <<legacyUnused, results, i, stdout, sleeps, files, rowIter,
                   replies>>
    /\ UNCHANGED guiVars

\* line 99: the next index of the range, or the end of the loop
LegacyNextIndex ==
    /\ pc' = IF i + 1 < count THEN "LegacyPending" ELSE "LegacyFinished"
    /\ i' = i + 1

\* lines 118-125 and 99: record the row, sleep, next index; lines 127-129
\* when .strip() raises on an empty content
LegacyCompletionReturns ==
    /\ pc = "LegacyCalling"
    /\ \E content \in Contents :
       \E r \in {extract_dv(content)} :
         /\ replies' = Append(replies, Reply(i, "returned", content))
         /\ IF r.ok
            THEN /\ results' = Append(results,
                       ("Condition" :> condition_key) @@ ("DV" :> r.dv)
                       @@ ("Age" :> metadata.age) @@ ("Sex" :> metadata.sex)
                       @@ ("Culture Background" :> metadata.culture)
                       @@ ("Mood" :> metadata.mood)
                       @@ ("Name" :> metadata.sensitivity))
                 /\ rowIter' = Append(rowIter, i)
                 /\ sleeps' = Append(sleeps, i)
                 /\ stdout' = Append(stdout, [iteration |-> i, exc |-> None])
            ELSE /\ stdout' = Append(stdout, ErrorLine(i, r.exc))
                 /\ UNCHANGED <<results, rowIter, sleeps>>
    /\ LegacyNextIndex
    /\ UNCHANGED <<legacyUnused, condition_key, messages, metadata, calls,
                   files>>
    /\ UNCHANGED guiVars

\* lines 127-129 and 99: the call raised
LegacyCompletionRaises ==
    /\ pc = "LegacyCalling"
    /\ \E e \in CompletionErrors :
         /\ replies' = Append(replies, Reply(i, "raised", e))
         /\ stdout' = Append(stdout, ErrorLine(i, e))
    /\ LegacyNextIndex
    /\ UNCHANGED <<legacyUnused, results, condition_key, messages, metadata,
                   calls, sleeps, files, rowIter>>
    /\ UNCHANGED guiVars

\* lines 132-134
LegacyExport ==
    /\ pc = "LegacyFinished"
    /\ files' = Append(files, [path |-> TimestampPath,
                               df |-> DataFrameWithColumns(results, LegacyColumns)])
    /\ pc' = "LegacyReturned"
    /\ UNCHANGED <<legacyUnused, results, i, condition_key, messages, metadata,
                   stdout, calls, sleeps, rowIter, replies>>
    /\ UNCHANGED guiVars

LegacyNext ==
    \/ LegacyBuildAndSend
    \/ LegacyCompletionReturns
    \/ LegacyCompletionRaises
    \/ LegacyExport

LegacySpec == LegacyInit /\ [][LegacyNext]_vars

\* C29: the age, sex, culture background, social sensitivity and mood of a
\* recorded row of test.py are those of the persona in the system message
\* sent in the row's iteration
C29_LegacyRowIsPersonaSent ==
    \A n \in 1..Len(results) :
        LET p == PersonaSent(rowIter[n])
        IN  /\ results[n]["Age"] = p.age
            /\ results[n]["Sex"] = p.sex
            /\ results[n]["Culture Background"] = p.culture
            /\ results[n]["Name"] = p.sensitivity
            /\ results[n]["Mood"] = p.mood

====
